---- MODULE Spec2Model ----
(***************************************************************************)
(* Model of the two reporting scripts of the repository:                   *)
(*   analyze_database_tables.py        (the CSV script, prefix T_)         *)
(*   analyze_database_table_column.py  (the histogram script, prefix H_)   *)
(* Text is a sequence of one-character strings, so that suffix tests,      *)
(* splitext, ', '.join, str() and CSV quoting are computed, not assumed.   *)
(***************************************************************************)
EXTENDS Integers, Sequences, FiniteSets, TLC

VARIABLES
  fs,               \* the directory tree: directory path -> [dirs, files]
  db,               \* file path -> the database stored in that file
  \* ---- analyze_database_tables.py
  pcT,              \* position of the CSV script
  db_filesT,        \* main: db_files
  iT,               \* main: how many of db_files the for loop has taken
  all_tables_info,  \* main: all_tables_info
  database_name,    \* get_table_info: database_name
  tables_info,      \* get_table_info: tables_info
  connT,            \* get_table_info: conn (<<>>, or <<the path it is open on>>)
  tablesT,          \* get_table_info: tables
  kT,               \* get_table_info: how many of tables the for loop has taken
  table_info,       \* get_table_info: table_info
  openT,            \* connections the CSV script's process holds open
  stdoutT,          \* lines the CSV script has printed
  csv_file,         \* content of database_tables_stats.csv
  csv_rows,         \* what a csv.reader yields on csv_file, once read back
  \* ---- analyze_database_table_column.py
  pcH,              \* position of the histogram script
  db_filesH,        \* analyze_columns: db_files
  iH,               \* analyze_columns: how many of db_files the loop has taken
  column_dist,      \* analyze_columns / main: column_dist
  table_stats,      \* get_column_stats: table_stats
  connH,            \* get_column_stats: conn
  tablesH,          \* get_column_stats: tables
  kH,               \* get_column_stats: how many of tables the loop has taken
  openH,            \* connections the histogram script's process holds open
  stdoutH,          \* lines the histogram script has printed
  fig,              \* plot_column_distribution: fig (None before it is built)
  html_file         \* whether column_distribution.html has been written

varsWorld == <<fs, db>>
varsT == <<pcT, db_filesT, iT, all_tables_info, database_name, tables_info,
           connT, tablesT, kT, table_info, openT, stdoutT, csv_file, csv_rows>>
varsH == <<pcH, db_filesH, iH, column_dist, table_stats, connH, tablesH, kH,
           openH, stdoutH, fig, html_file>>
vars == <<fs, db, pcT, db_filesT, iT, all_tables_info, database_name,
          tables_info, connT, tablesT, kT, table_info, openT, stdoutT,
          csv_file, csv_rows, pcH, db_filesH, iH, column_dist, table_stats,
          connH, tablesH, kH, openH, stdoutH, fig, html_file>>

(***************************************************************************)
(* Bounds of the model.                                                    *)
(***************************************************************************)
MaxFiles == 2      \* database files under a root, in the runs of the scripts
MaxTables == 2     \* tables in one database file
MaxDepth == 1      \* levels of subdirectories below a root, in the walk
MaxPerDir == 2     \* files in one directory, in the walk
MaxRecords == 2    \* records handed to write_csv_report on its own

None == "None"

(***************************************************************************)
(* Text.                                                                   *)
(***************************************************************************)
Min2(a, b) == IF a < b THEN a ELSE b

Range(xs) == {xs[j] : j \in 1..Len(xs)}

RECURSIVE Flatten(_)
Flatten(ss) == IF ss = <<>> THEN <<>> ELSE Head(ss) \o Flatten(Tail(ss))

\* str.endswith
endswith(s, suffix) ==
  /\ Len(s) >= Len(suffix)
  /\ SubSeq(s, Len(s) - Len(suffix) + 1, Len(s)) = suffix

\* sep.join(parts)
RECURSIVE join(_, _)
join(sep, parts) ==
  IF parts = <<>> THEN <<>>
  ELSE IF Len(parts) = 1 THEN Head(parts)
  ELSE Head(parts) \o sep \o join(sep, Tail(parts))

Digit(d) == <<"0", "1", "2", "3", "4", "5", "6", "7", "8", "9">>[d + 1]

\* str(n) of a non-negative int
RECURSIVE str(_)
str(n) == IF n < 10 THEN <<Digit(n)>> ELSE str(n \div 10) \o <<Digit(n % 10)>>

\* index of the last occurrence of character c in s, 0 if there is none
RECURSIVE rfind(_, _)
rfind(s, c) ==
  IF s = <<>> THEN 0
  ELSE IF s[Len(s)] = c THEN Len(s)
  ELSE rfind(SubSeq(s, 1, Len(s) - 1), c)

RECURSIVE LeadingDots(_)
LeadingDots(s) ==
  IF s # <<>> /\ Head(s) = "." THEN 1 + LeadingDots(Tail(s)) ELSE 0

\* os.path.join(root, file): a path is kept as its directory and its last
\* component, the component being text
path_join(root, file) == [root |-> root, file |-> file]

\* os.path.basename
basename(path) == path.file

\* os.path.splitext(name)[0]: cut at the last dot, unless that dot is one of
\* the leading dots of the name
splitext0(name) ==
  LET dot == rfind(name, ".")
  IN IF dot > LeadingDots(name) THEN SubSeq(name, 1, dot - 1) ELSE name

DOT_SQLITE == <<".", "s", "q", "l", "i", "t", "e">>
DOT_DB == <<".", "d", "b">>

(***************************************************************************)
(* get_database_files (the same function in both scripts).                 *)
(***************************************************************************)
\* the files of one directory that the inner loop appends
MatchingFiles(root, files) ==
  LET Keep(file) == endswith(file, DOT_SQLITE) \/ endswith(file, DOT_DB)
      RECURSIVE Scan(_)
      Scan(fl) ==
        IF fl = <<>> THEN <<>>
        ELSE (IF Keep(Head(fl)) THEN <<path_join(root, Head(fl))>> ELSE <<>>)
             \o Scan(Tail(fl))
  IN Scan(files)

\* a variant that lists only the root directory itself
walk_top_only(tree, top) ==
  IF top \notin DOMAIN tree THEN <<>> ELSE <<top>>

\* os.walk(top): the directories visited, top-down, each directory before its
\* subdirectories in listing order; nothing when top is not a directory
\* (onerror is None, so the listing error is swallowed)
RECURSIVE walk(_, _)
walk(tree, top) ==
  IF top \notin DOMAIN tree THEN <<>>
  ELSE LET subs == tree[top].dirs
           RECURSIVE Below(_)
           Below(j) ==
             IF j > Len(subs) THEN <<>>
             ELSE walk(tree, Append(top, subs[j])) \o Below(j + 1)
       IN <<top>> \o Below(1)

get_database_files(tree, root_dir) ==
  LET visited == walk(tree, <<root_dir>>)
  IN Flatten([j \in 1..Len(visited) |->
                MatchingFiles(visited[j], tree[visited[j]].files)])

ROOT_T == "dev_20240627"
ROOT_H == "train"

(***************************************************************************)
(* The sqlite3 calls, answered by the database the file holds.  A database *)
(* is [catalog, faults]: the tables of its catalog in catalog order, each  *)
(* named by its place in TablePool, and the queries that raise on it.  A   *)
(* table is [name, columns, rows], columns being the rows PRAGMA           *)
(* table_info returns, <<cid, name, type>>.                                *)
(***************************************************************************)
Text_id == <<"i", "d">>
Text_name == <<"n", "a", "m", "e">>
Text_email == <<"e", "m", "a", "i", "l">>
Text_ts == <<"t", "s">>
Text_kind == <<"k", "i", "n", "d">>

\* the tables a database file may hold
TablePool == <<
  [name |-> <<"u", "s", "e", "r", "s">>, rows |-> 10,
   columns |-> <<<<0, Text_id, "INTEGER">>, <<1, Text_name, "TEXT">>,
                 <<2, Text_email, "TEXT">>>>],
  [name |-> <<"1", "2", "3">>, rows |-> 1,
   columns |-> <<<<0, Text_id, "INTEGER">>>>],
  [name |-> <<"l", "o", "g", "s">>, rows |-> 0,
   columns |-> <<<<0, Text_id, "INTEGER">>, <<1, Text_ts, "TEXT">>>>],
  [name |-> <<"e", "v", "e", "n", "t", "s">>, rows |-> 3,
   columns |-> <<<<0, Text_id, "INTEGER">>, <<1, Text_ts, "TEXT">>,
                 <<2, Text_kind, "TEXT">>>>] >>

\* the tables of a database, in catalog order
TablesOf(d) == [k \in 1..Len(d.catalog) |-> TablePool[d.catalog[k]]]

Q(kind, t) == [q |-> kind, t |-> t]

\* sqlite3.connect(db_path) raises
connect_raises(db_path) == Q("connect", 0) \in db[db_path].faults

\* SELECT name FROM sqlite_master WHERE type='table' raises
list_raises(db_path) == Q("list", 0) \in db[db_path].faults

\* cursor.fetchall() of the catalog query: one name per table
fetch_tables(db_path) ==
  [k \in 1..Len(db[db_path].catalog) |-> TablesOf(db[db_path])[k].name]

\* PRAGMA table_info(<k-th table>) raises
pragma_raises(db_path, k) == Q("pragma", k) \in db[db_path].faults

\* cursor.fetchall() of PRAGMA table_info
fetch_columns(db_path, k) == TablesOf(db[db_path])[k].columns

\* SELECT COUNT(*) FROM <k-th table> raises
count_raises(db_path, k) == Q("count", k) \in db[db_path].faults

\* cursor.fetchone()[0] of the count query
fetch_count(db_path, k) == TablesOf(db[db_path])[k].rows

Line(kind, arg) == [kind |-> kind, arg |-> arg]

(***************************************************************************)
(* analyze_database_tables.py                                              *)
(***************************************************************************)
\* [col[1] for col in columns]
column_names(columns) == [j \in 1..Len(columns) |-> columns[j][2]]

\* a variant of the handler that prints nothing
except_lines_silent(db_path) == <<>>

\* the except clause of both inspectors: one printed line naming the file
except_lines(db_path) == <<Line("error", db_path)>>

\* a variant that throws the partial result away on an exception
returned_on_error_empty(partial) == <<>>

\* what get_table_info returns after an exception: tables_info as it stands
returned_on_error(partial) == partial

\* a variant that puts the new file's records first
extend_front(list, more) == more \o list

\* list.extend
extend(list, more) == list \o more

\* a variant that counts the columns from the last column id
with_columns_last_cid(info, columns) ==
  [database_name |-> info.database_name,
   table_name |-> info.table_name,
   column_count |-> IF columns = <<>> THEN 0 ELSE columns[Len(columns)][1],
   column_names |-> column_names(columns)]

\* get_table_info, lines 48-49: the count and the names of the fetched rows
with_columns(info, columns) ==
  [database_name |-> info.database_name,
   table_name |-> info.table_name,
   column_count |-> Len(columns),
   column_names |-> column_names(columns)]

db_pathT == db_filesT[iT]

\* a step of the CSV script leaves the disk and the other process alone
FrameT == UNCHANGED <<varsWorld, varsH>>

\* main, lines 89-97: discover the files, print how many
T_Discover ==
  /\ FrameT
  /\ pcT = "main"
  /\ db_filesT' = get_database_files(fs, ROOT_T)
  /\ stdoutT' = Append(stdoutT, Line("found", Len(db_filesT')))
  /\ all_tables_info' = <<>>
  /\ iT' = 0
  /\ pcT' = "loop"
  /\ UNCHANGED <<database_name, tables_info, connT, tablesT, kT, table_info,
                 openT, csv_file, csv_rows>>

\* main, lines 98-100, and get_table_info, lines 28-29: take the next file
T_NextFile ==
  /\ FrameT
  /\ pcT = "loop"
  /\ iT < Len(db_filesT)
  /\ iT' = iT + 1
  /\ stdoutT' = Append(stdoutT, Line("processing", db_filesT[iT']))
  /\ database_name' = splitext0(basename(db_filesT[iT']))
  /\ tables_info' = <<>>
  /\ pcT' = "connect"
  /\ UNCHANGED <<db_filesT, all_tables_info, connT, tablesT, kT, table_info,
                 openT, csv_file, csv_rows>>

\* get_table_info, lines 32-33
T_Connect ==
  /\ FrameT
  /\ pcT = "connect"
  /\ IF connect_raises(db_pathT)
     THEN /\ pcT' = "except"
          /\ UNCHANGED <<connT, openT>>
     ELSE /\ connT' = <<db_pathT>>
          /\ openT' = openT \cup {db_pathT}
          /\ pcT' = "list"
  /\ UNCHANGED <<db_filesT, iT, all_tables_info, database_name, tables_info,
                 tablesT, kT, table_info, stdoutT, csv_file, csv_rows>>

\* get_table_info, lines 36-37
T_ListTables ==
  /\ FrameT
  /\ pcT = "list"
  /\ IF list_raises(db_pathT)
     THEN /\ pcT' = "except"
          /\ UNCHANGED <<tablesT, kT>>
     ELSE /\ tablesT' = fetch_tables(db_pathT)
          /\ kT' = 0
          /\ pcT' = "for"
  /\ UNCHANGED <<db_filesT, iT, all_tables_info, database_name, tables_info,
                 connT, table_info, openT, stdoutT, csv_file, csv_rows>>

\* get_table_info, lines 39-43: the next table of the for loop, or its end
T_NextTable ==
  /\ FrameT
  /\ pcT = "for"
  /\ IF kT < Len(tablesT)
     THEN /\ kT' = kT + 1
          /\ table_info' = [database_name |-> database_name,
                            table_name |-> tablesT[kT']]
          /\ pcT' = "pragma"
     ELSE /\ pcT' = "close"
          /\ UNCHANGED <<kT, table_info>>
  /\ UNCHANGED <<db_filesT, iT, all_tables_info, database_name, tables_info,
                 connT, tablesT, openT, stdoutT, csv_file, csv_rows>>

\* get_table_info, lines 46-49
T_Pragma ==
  /\ FrameT
  /\ pcT = "pragma"
  /\ IF pragma_raises(db_pathT, kT)
     THEN /\ pcT' = "except"
          /\ UNCHANGED table_info
     ELSE /\ table_info' =
               with_columns(table_info, fetch_columns(db_pathT, kT))
          /\ pcT' = "count"
  /\ UNCHANGED <<db_filesT, iT, all_tables_info, database_name, tables_info,
                 connT, tablesT, kT, openT, stdoutT, csv_file, csv_rows>>

\* get_table_info, lines 52-56
T_Count ==
  /\ FrameT
  /\ pcT = "count"
  /\ IF count_raises(db_pathT, kT)
     THEN /\ pcT' = "except"
          /\ UNCHANGED <<table_info, tables_info>>
     ELSE /\ table_info' =
               [database_name |-> table_info.database_name,
                table_name |-> table_info.table_name,
                column_count |-> table_info.column_count,
                column_names |-> table_info.column_names,
                row_count |-> fetch_count(db_pathT, kT)]
          /\ tables_info' = Append(tables_info, table_info')
          /\ pcT' = "for"
  /\ UNCHANGED <<db_filesT, iT, all_tables_info, database_name, connT,
                 tablesT, kT, openT, stdoutT, csv_file, csv_rows>>

\* get_table_info, line 58
T_Close ==
  /\ FrameT
  /\ pcT = "close"
  /\ openT' = openT \ {connT[1]}
  /\ pcT' = "return"
  /\ UNCHANGED <<db_filesT, iT, all_tables_info, database_name, tables_info,
                 connT, tablesT, kT, table_info, stdoutT, csv_file, csv_rows>>

\* get_table_info, lines 60-61: every exception of the try block lands here
T_Except ==
  /\ FrameT
  /\ pcT = "except"
  /\ stdoutT' = stdoutT \o except_lines(db_pathT)
  /\ tables_info' = returned_on_error(tables_info)
  /\ pcT' = "return"
  /\ UNCHANGED <<db_filesT, iT, all_tables_info, database_name, connT,
                 tablesT, kT, table_info, openT, csv_file, csv_rows>>

\* get_table_info, line 63, and main, line 101: the locals go out of scope,
\* the caller extends its list
T_Return ==
  /\ FrameT
  /\ pcT = "return"
  /\ all_tables_info' = extend(all_tables_info, tables_info)
  /\ connT' = <<>>
  /\ pcT' = "loop"
  /\ UNCHANGED <<db_filesT, iT, database_name, tables_info, tablesT, kT,
                 table_info, openT, stdoutT, csv_file, csv_rows>>

\* The interpreter finalizes the connections nothing refers to any more,
\* which closes them; when it does so is up to the interpreter.
T_Finalize ==
  /\ FrameT
  /\ openT \ Range(connT) # {}
  /\ openT' = openT \cap Range(connT)
  /\ UNCHANGED <<pcT, db_filesT, iT, all_tables_info, database_name,
                 tables_info, connT, tablesT, kT, table_info, stdoutT,
                 csv_file, csv_rows>>

\* main, line 104: the loop is over
T_LoopEnd ==
  /\ FrameT
  /\ pcT = "loop"
  /\ iT = Len(db_filesT)
  /\ pcT' = "write"
  /\ UNCHANGED <<db_filesT, iT, all_tables_info, database_name, tables_info,
                 connT, tablesT, kT, table_info, openT, stdoutT, csv_file,
                 csv_rows>>

(***************************************************************************)
(* write_csv_report: csv.writer with the default (excel) dialect.          *)
(***************************************************************************)
COMMA == ","
QUOTE == "\""
CR == "\r"
LF == "\n"
SPACE == " "

Text_Database == <<"D", "a", "t", "a", "b", "a", "s", "e">>
Text_Table == <<"T", "a", "b", "l", "e">>
Text_Rows == <<"R", "o", "w", "s">>
Text_Columns == <<"C", "o", "l", "u", "m", "n", "s">>
Text_ColumnNames ==
  <<"C", "o", "l", "u", "m", "n", " ", "N", "a", "m", "e", "s">>

\* the header row of line 72
CSV_HEADER ==
  <<Text_Database, Text_Table, Text_Rows, Text_Columns, Text_ColumnNames>>

\* a variant that never quotes
csv_needs_quotes_never(field) == FALSE

\* QUOTE_MINIMAL: a field is quoted when it holds the delimiter, the quote
\* character or a character of the line terminator
csv_needs_quotes(field) ==
  \E j \in 1..Len(field) : field[j] \in {COMMA, QUOTE, CR, LF}

\* doublequote: every quote character of the field is written twice
RECURSIVE csv_double_quotes(_)
csv_double_quotes(field) ==
  IF field = <<>> THEN <<>>
  ELSE (IF Head(field) = QUOTE THEN <<QUOTE, QUOTE>> ELSE <<Head(field)>>)
       \o csv_double_quotes(Tail(field))

csv_field(field) ==
  IF csv_needs_quotes(field)
  THEN <<QUOTE>> \o csv_double_quotes(field) \o <<QUOTE>>
  ELSE field

\* writer.writerow(row): the fields, comma separated, then '\r\n'
csv_writerow(row) ==
  join(<<COMMA>>, [j \in 1..Len(row) |-> csv_field(row[j])]) \o <<CR, LF>>

\* the list of lines 76-82, the two ints as csv.writer writes them: str()
csv_row_of(info) ==
  <<info.database_name, info.table_name, str(info.row_count),
    str(info.column_count), join(<<COMMA, SPACE>>, info.column_names)>>

\* the text write_csv_report leaves in the file
csv_report(infos) ==
  csv_writerow(CSV_HEADER)
  \o Flatten([j \in 1..Len(infos) |-> csv_writerow(csv_row_of(infos[j]))])

\* main, lines 104-105, and write_csv_report: open(output_file, 'w')
\* truncates, then the header and one row per record are written
T_WriteCsv ==
  /\ FrameT
  /\ pcT = "write"
  /\ csv_file' = csv_report(all_tables_info)
  /\ stdoutT' = Append(stdoutT, Line("saved", 0))
  /\ pcT' = "done"
  /\ UNCHANGED <<db_filesT, iT, all_tables_info, database_name, tables_info,
                 connT, tablesT, kT, table_info, openT, csv_rows>>

(***************************************************************************)
(* Reading the report back: csv.reader (excel dialect) over a file opened  *)
(* with newline=''.  The file yields lines ended by '\r\n', '\r' or '\n';  *)
(* the reader's automaton takes each character, and the end of each line.  *)
(***************************************************************************)
EOL == "EOL"

ReaderStart == [state |-> "START_RECORD", field |-> <<>>, fields |-> <<>>,
                rows |-> <<>>, error |-> FALSE]

SaveField(r) == [r EXCEPT !.fields = Append(r.fields, r.field),
                          !.field = <<>>]

AddChar(r, c) == [r EXCEPT !.field = Append(r.field, c)]

To(r, st) == [r EXCEPT !.state = st]

AfterBreak(c) == IF c = EOL THEN "START_RECORD" ELSE "EAT_CRNL"

StartField(r, c) ==
  IF c \in {CR, LF, EOL} THEN To(SaveField(r), AfterBreak(c))
  ELSE IF c = QUOTE THEN To(r, "IN_QUOTED_FIELD")
  ELSE IF c = COMMA THEN To(SaveField(r), "START_FIELD")
  ELSE To(AddChar(r, c), "IN_FIELD")

ReaderChar(r, c) ==
  CASE r.state = "START_RECORD" ->
         IF c = EOL THEN r
         ELSE IF c \in {CR, LF} THEN To(r, "EAT_CRNL")
         ELSE StartField(r, c)
    [] r.state = "START_FIELD" -> StartField(r, c)
    [] r.state = "IN_FIELD" ->
         IF c \in {CR, LF, EOL} THEN To(SaveField(r), AfterBreak(c))
         ELSE IF c = COMMA THEN To(SaveField(r), "START_FIELD")
         ELSE AddChar(r, c)
    [] r.state = "IN_QUOTED_FIELD" ->
         IF c = EOL THEN r
         ELSE IF c = QUOTE THEN To(r, "QUOTE_IN_QUOTED_FIELD")
         ELSE AddChar(r, c)
    [] r.state = "QUOTE_IN_QUOTED_FIELD" ->
         IF c = QUOTE THEN To(AddChar(r, c), "IN_QUOTED_FIELD")
         ELSE IF c = COMMA THEN To(SaveField(r), "START_FIELD")
         ELSE IF c \in {CR, LF, EOL} THEN To(SaveField(r), AfterBreak(c))
         ELSE To(AddChar(r, c), "IN_FIELD")
    [] r.state = "EAT_CRNL" ->
         IF c \in {CR, LF} THEN r
         ELSE IF c = EOL THEN To(r, "START_RECORD")
         ELSE [r EXCEPT !.error = TRUE]

\* at the end of a line the reader hands the record over, if it is complete
EndOfLine(r) ==
  LET e == ReaderChar(r, EOL)
  IN IF e.state = "START_RECORD"
     THEN [e EXCEPT !.rows = Append(e.rows, e.fields), !.fields = <<>>]
     ELSE e

\* is position j of text the last character of a line of the file?
LineEndsAt(text, j) ==
  \/ text[j] = LF
  \/ text[j] = CR /\ (j = Len(text) \/ text[j + 1] # LF)

\* the reader after characters lo..hi of text, started in r; an error ends
\* the reading (csv.Error)
RECURSIVE ReaderRun(_, _, _, _)
ReaderRun(text, lo, hi, r) ==
  IF r.error \/ lo > hi THEN r
  ELSE IF lo = hi
  THEN LET r1 == ReaderChar(r, text[lo])
       IN IF LineEndsAt(text, lo) THEN EndOfLine(r1) ELSE r1
  ELSE LET mid == (lo + hi) \div 2
       IN ReaderRun(text, mid + 1, hi, ReaderRun(text, lo, mid, r))

\* list(csv.reader(open(file, newline=''))): a last line with no line end
\* is a line too, and a quoted field the file ends in is a field
csv_read(text) ==
  LET r == ReaderRun(text, 1, Len(text), ReaderStart)
      e == IF text # <<>> /\ ~LineEndsAt(text, Len(text)) /\ ~r.error
           THEN EndOfLine(r) ELSE r
  IN IF e.state = "IN_QUOTED_FIELD" /\ ~e.error
     THEN Append(e.rows, Append(e.fields, e.field))
     ELSE e.rows

\* reading the written report back
ReadBack ==
  /\ FrameT
  /\ pcT = "done"
  /\ csv_rows' = csv_read(csv_file)
  /\ pcT' = "read"
  /\ UNCHANGED <<db_filesT, iT, all_tables_info, database_name, tables_info,
                 connT, tablesT, kT, table_info, openT, stdoutT, csv_file>>

(***************************************************************************)
(* analyze_database_table_column.py.  A dict is the sequence of its items, *)
(* [key, value], in insertion order.                                       *)
(***************************************************************************)
dict_keys(d) == [j \in 1..Len(d) |-> d[j].key]

dict_has(d, key) == \E j \in 1..Len(d) : d[j].key = key

dict_get(d, key) == d[CHOOSE j \in 1..Len(d) : d[j].key = key].value

\* d[key] = value: an existing key keeps its place
dict_set(d, key, value) ==
  IF dict_has(d, key)
  THEN [j \in 1..Len(d) |->
          IF d[j].key = key THEN [key |-> key, value |-> value] ELSE d[j]]
  ELSE Append(d, [key |-> key, value |-> value])

\* a variant that stores 1 instead of adding 1
increment_overwrite(dist, column_count) == dict_set(dist, column_count, 1)

\* column_dist[column_count] += 1 on a defaultdict(int)
increment(dist, column_count) ==
  dict_set(dist, column_count,
           (IF dict_has(dist, column_count)
            THEN dict_get(dist, column_count) ELSE 0) + 1)

\* a variant that leaves the keys in insertion order
sorted_unsorted(xs) == xs

\* sorted(xs), by insertion
RECURSIVE sorted(_)
sorted(xs) ==
  IF xs = <<>> THEN <<>>
  ELSE LET rest == sorted(SubSeq(xs, 1, Len(xs) - 1))
           x == xs[Len(xs)]
           below == SelectSeq(rest, LAMBDA e : e <= x)
           above == SelectSeq(rest, LAMBDA e : e > x)
       IN below \o <<x>> \o above

\* min(xs) and max(xs) of a non-empty list
py_min(xs) == xs[CHOOSE j \in 1..Len(xs) : \A m \in 1..Len(xs) : xs[j] <= xs[m]]

py_max(xs) == xs[CHOOSE j \in 1..Len(xs) : \A m \in 1..Len(xs) : xs[j] >= xs[m]]

\* get_column_stats, lines 45-48: the names and the count of the fetched rows
stats_of(columns) ==
  [columns |-> column_names(columns), count |-> Len(columns)]

db_pathH == db_filesH[iH]

\* a step of the histogram script leaves the disk and the other process alone
FrameH == UNCHANGED <<varsWorld, varsT>>

\* analyze_columns, lines 63-66
H_Discover ==
  /\ FrameH
  /\ pcH = "main"
  /\ column_dist' = <<>>
  /\ db_filesH' = get_database_files(fs, ROOT_H)
  /\ stdoutH' = Append(stdoutH, Line("found", Len(db_filesH')))
  /\ iH' = 0
  /\ pcH' = "loop"
  /\ UNCHANGED <<table_stats, connH, tablesH, kH, openH, fig, html_file>>

\* analyze_columns, lines 68-71, and get_column_stats, line 30
H_NextFile ==
  /\ FrameH
  /\ pcH = "loop"
  /\ iH < Len(db_filesH)
  /\ iH' = iH + 1
  /\ stdoutH' = Append(stdoutH, Line("processing", db_filesH[iH']))
  /\ table_stats' = <<>>
  /\ pcH' = "connect"
  /\ UNCHANGED <<db_filesH, column_dist, connH, tablesH, kH, openH, fig,
                 html_file>>

\* get_column_stats, lines 33-34
H_Connect ==
  /\ FrameH
  /\ pcH = "connect"
  /\ IF connect_raises(db_pathH)
     THEN /\ pcH' = "except"
          /\ UNCHANGED <<connH, openH>>
     ELSE /\ connH' = <<db_pathH>>
          /\ openH' = openH \cup {db_pathH}
          /\ pcH' = "list"
  /\ UNCHANGED <<db_filesH, iH, column_dist, table_stats, tablesH, kH,
                 stdoutH, fig, html_file>>

\* get_column_stats, lines 37-38
H_ListTables ==
  /\ FrameH
  /\ pcH = "list"
  /\ IF list_raises(db_pathH)
     THEN /\ pcH' = "except"
          /\ UNCHANGED <<tablesH, kH>>
     ELSE /\ tablesH' = fetch_tables(db_pathH)
          /\ kH' = 0
          /\ pcH' = "for"
  /\ UNCHANGED <<db_filesH, iH, column_dist, table_stats, connH, openH,
                 stdoutH, fig, html_file>>

\* get_column_stats, line 40: the next table of the for loop, or its end
H_NextTable ==
  /\ FrameH
  /\ pcH = "for"
  /\ IF kH < Len(tablesH)
     THEN /\ kH' = kH + 1
          /\ pcH' = "pragma"
     ELSE /\ pcH' = "close"
          /\ UNCHANGED kH
  /\ UNCHANGED <<db_filesH, iH, column_dist, table_stats, connH, tablesH,
                 openH, stdoutH, fig, html_file>>

\* get_column_stats, lines 42-48
H_Pragma ==
  /\ FrameH
  /\ pcH = "pragma"
  /\ IF pragma_raises(db_pathH, kH)
     THEN /\ pcH' = "except"
          /\ UNCHANGED table_stats
     ELSE /\ table_stats' =
               dict_set(table_stats, tablesH[kH],
                        stats_of(fetch_columns(db_pathH, kH)))
          /\ pcH' = "for"
  /\ UNCHANGED <<db_filesH, iH, column_dist, connH, tablesH, kH, openH,
                 stdoutH, fig, html_file>>

\* get_column_stats, line 50
H_Close ==
  /\ FrameH
  /\ pcH = "close"
  /\ openH' = openH \ {connH[1]}
  /\ pcH' = "return"
  /\ UNCHANGED <<db_filesH, iH, column_dist, table_stats, connH, tablesH, kH,
                 stdoutH, fig, html_file>>

\* get_column_stats, lines 52-53
H_Except ==
  /\ FrameH
  /\ pcH = "except"
  /\ stdoutH' = stdoutH \o except_lines(db_pathH)
  /\ pcH' = "return"
  /\ UNCHANGED <<db_filesH, iH, column_dist, table_stats, connH, tablesH, kH,
                 openH, fig, html_file>>

\* the loop of lines 74-78 over table_stats.items(), from item j on
RECURSIVE Tally(_, _, _)
Tally(dist, stats, j) ==
  IF j > Len(stats) THEN dist
  ELSE Tally(increment(dist, stats[j].value.count), stats, j + 1)

\* get_column_stats, line 55, and analyze_columns, lines 74-78
H_Return ==
  /\ FrameH
  /\ pcH = "return"
  /\ column_dist' = Tally(column_dist, table_stats, 1)
  /\ stdoutH' = stdoutH \o
       [j \in 1..Len(table_stats) |->
          Line("table", <<table_stats[j].key, table_stats[j].value.count,
                          join(<<COMMA, SPACE>>,
                               table_stats[j].value.columns)>>)]
  /\ connH' = <<>>
  /\ pcH' = "loop"
  /\ UNCHANGED <<db_filesH, iH, table_stats, tablesH, kH, openH, fig,
                 html_file>>

\* the interpreter's finalizer, as for the CSV script
H_Finalize ==
  /\ FrameH
  /\ openH \ Range(connH) # {}
  /\ openH' = openH \cap Range(connH)
  /\ UNCHANGED <<pcH, db_filesH, iH, column_dist, table_stats, connH, tablesH,
                 kH, stdoutH, fig, html_file>>

\* analyze_columns, line 80, and main, line 144: print_distribution
H_PrintDistribution ==
  /\ FrameH
  /\ pcH = "loop"
  /\ iH = Len(db_filesH)
  /\ LET ks == sorted(dict_keys(column_dist))
     IN stdoutH' = stdoutH \o
          [j \in 1..Len(ks) |->
             Line("count", <<ks[j], dict_get(column_dist, ks[j])>>)]
  /\ pcH' = "plot"
  /\ UNCHANGED <<db_filesH, iH, column_dist, table_stats, connH, tablesH, kH,
                 openH, fig, html_file>>

\* main, line 147: plot_column_distribution.  min(x) of line 114 raises
\* ValueError on an empty x, before update_layout and write_html are called;
\* nothing catches it.  The range is kept in halves: <<2*lo, 2*hi>>.
H_Plot ==
  /\ FrameH
  /\ pcH = "plot"
  /\ LET x == sorted(dict_keys(column_dist))
         y == [j \in 1..Len(x) |-> dict_get(column_dist, x[j])]
     IN IF x = <<>>
        THEN /\ fig' = [x |-> x, y |-> y, text |-> y]
             /\ pcH' = "raised"
             /\ UNCHANGED <<html_file, stdoutH>>
        ELSE /\ fig' = [x |-> x, y |-> y, text |-> y, dtick |-> 1,
                        tickmode |-> "linear",
                        range2 |-> <<2 * py_min(x) - 1, 2 * py_max(x) + 1>>]
             /\ html_file' = TRUE
             /\ stdoutH' = Append(stdoutH, Line("saved", 0))
             /\ pcH' = "done"
  /\ UNCHANGED <<db_filesH, iH, column_dist, table_stats, connH, tablesH, kH,
                 openH>>

(***************************************************************************)
(* The inputs: directory trees and database files.                         *)
(***************************************************************************)
Name_alpha_db == <<"a", "l", "p", "h", "a", ".", "d", "b">>
Name_alpha_sqlite ==
  <<"a", "l", "p", "h", "a", ".", "s", "q", "l", "i", "t", "e">>
Name_beta_db == <<"b", "e", "t", "a", ".", "d", "b">>
Name_gamma_sqlite ==
  <<"g", "a", "m", "m", "a", ".", "s", "q", "l", "i", "t", "e">>
Name_notes_txt == <<"n", "o", "t", "e", "s", ".", "t", "x", "t">>
Name_adb == <<"a", "d", "b">>
Name_a_db_bak == <<"a", ".", "d", "b", ".", "b", "a", "k">>
Name_a_db == <<"a", ".", "d", "b">>
Name_b_sqlite == <<"b", ".", "s", "q", "l", "i", "t", "e">>

Reverse(xs) == [j \in 1..Len(xs) |-> xs[Len(xs) + 1 - j]]

\* the catalogs of nt tables: the first nt of the pool, in either order
Catalogs(nt) == {[k \in 1..nt |-> k], Reverse([k \in 1..nt |-> k])}

Queries(nt) ==
  {Q("connect", 0), Q("list", 0)}
  \cup {Q("pragma", k) : k \in 1..nt} \cup {Q("count", k) : k \in 1..nt}

TableCounts == 0..Min2(MaxTables, Len(TablePool))

\* no query raises, or one does: the opening, the listing, or a query of
\* one of the given kinds on the last table of the catalog.  An inspector
\* stops at the first query that raises, so what follows the table it stops
\* at never shows.
OneFault(nt, kinds) ==
  {{}, {Q("connect", 0)}, {Q("list", 0)}}
  \cup {{Q(kind, nt)} : kind \in IF nt = 0 THEN {} ELSE kinds}

\* the database files of the CSV script's runs
DatabasesT ==
  UNION {{[catalog |-> [k \in 1..nt |-> k], faults |-> F] :
            F \in OneFault(nt, {"pragma", "count"})} : nt \in TableCounts}

\* the database files of the histogram script's runs, which issues no
\* row-count query
DatabasesH ==
  UNION {{[catalog |-> c, faults |-> F] :
            c \in Catalogs(nt), F \in OneFault(nt, {"pragma"})} :
           nt \in TableCounts}

\* database files on which any set of queries raises
DatabasesAnyFaults ==
  UNION {{[catalog |-> c, faults |-> F] :
            c \in Catalogs(nt), F \in SUBSET Queries(nt)} : nt \in TableCounts}

NoFs == [p \in {} |-> 0]

\* the database files of a root, in walk order
FilePool(R) == <<path_join(<<R>>, Name_alpha_db),
                 path_join(<<R, "bak">>, Name_alpha_sqlite),
                 path_join(<<R, "bak">>, Name_beta_db),
                 path_join(<<R, "bak">>, Name_gamma_sqlite)>>

FileCounts == 0..Min2(MaxFiles, 4)

\* a root holding the first n files of the pool, and a file that is no database
FsOf(R, n) ==
  [p \in {<<R>>, <<R, "bak">>} |->
     IF p = <<R>>
     THEN [dirs |-> <<"bak">>,
           files |-> <<Name_notes_txt>>
                     \o (IF n >= 1 THEN <<Name_alpha_db>> ELSE <<>>)]
     ELSE [dirs |-> <<>>,
           files |-> SubSeq(<<Name_alpha_sqlite, Name_beta_db,
                              Name_gamma_sqlite>>, 1, n - 1)]]

PathsOf(R, n) == {FilePool(R)[j] : j \in 1..n}

\* the file names of the walk's directories
NamePool == <<Name_a_db, Name_b_sqlite, Name_adb, Name_a_db_bak>>

FileListings ==
  {SelectSeq(NamePool, LAMBDA nm : nm \in S) :
     S \in {S \in SUBSET {NamePool[j] : j \in 1..Len(NamePool)} :
              Cardinality(S) <= MaxPerDir}}

\* a directory with listing F and subdirectories names, each holding subs[j]
Graft(F, names, subs) ==
  [p \in {<<>>} \cup UNION {{<<names[j]>> \o q : q \in DOMAIN subs[j]} :
                              j \in 1..Len(names)} |->
     IF p = <<>> THEN [dirs |-> names, files |-> F]
     ELSE subs[CHOOSE j \in 1..Len(names) : names[j] = Head(p)][Tail(p)]]

Leaf(F) == Graft(F, <<>>, <<>>)

RECURSIVE Trees(_)
Trees(depth) ==
  IF depth = 0 THEN {Leaf(F) : F \in FileListings}
  ELSE {Leaf(F) : F \in FileListings}
       \cup {Graft(F, <<dn>>, <<sub>>) :
               F \in FileListings, dn \in {"bak", "old.db"},
               sub \in Trees(depth - 1)}
       \cup {Graft(F, <<"bak", "old.db">>, <<sub, Leaf(<<Name_a_db>>)>>) :
               F \in FileListings, sub \in Trees(depth - 1)}

Mount(R, tree) == [p \in {<<R>> \o q : q \in DOMAIN tree} |-> tree[Tail(p)]]

(***************************************************************************)
(* Initial states.                                                         *)
(***************************************************************************)
IdleT ==
  /\ db_filesT = <<>> /\ iT = 0 /\ all_tables_info = <<>>
  /\ database_name = None /\ tables_info = <<>> /\ connT = <<>>
  /\ tablesT = <<>> /\ kT = 0 /\ table_info = None /\ openT = {}
  /\ stdoutT = <<>> /\ csv_rows = <<>>

IdleH ==
  /\ db_filesH = <<>> /\ iH = 0 /\ column_dist = <<>> /\ table_stats = <<>>
  /\ connH = <<>> /\ tablesH = <<>> /\ kH = 0 /\ openH = {}
  /\ stdoutH = <<>> /\ fig = None /\ html_file = FALSE

\* a root that is missing, or holds up to MaxFiles database files
WorldOf(R, databases) ==
  \/ /\ fs = NoFs
     /\ db = NoFs
  \/ \E n \in FileCounts :
       /\ fs = FsOf(R, n)
       /\ db \in [PathsOf(R, n) -> databases]

\* the CSV script is started
Init ==
  /\ WorldOf(ROOT_T, DatabasesT)
  /\ pcT = "main" /\ IdleT /\ csv_file = <<>>
  /\ pcH = "idle" /\ IdleH

\* the histogram script is started
InitHist ==
  /\ WorldOf(ROOT_H, DatabasesH)
  /\ pcH = "main" /\ IdleH
  /\ pcT = "idle" /\ IdleT /\ csv_file = <<>>

\* both scripts are started, each root holding a copy of the same one file
InitBoth ==
  /\ fs = FsOf(ROOT_T, 1) @@ FsOf(ROOT_H, 1)
  /\ \E d \in DatabasesAnyFaults :
       db = [p \in PathsOf(ROOT_T, 1) \cup PathsOf(ROOT_H, 1) |-> d]
  /\ pcT = "main" /\ IdleT /\ csv_file = <<>>
  /\ pcH = "main" /\ IdleH

\* both scripts are started on some directory tree
InitWalk ==
  /\ \E tree \in Trees(MaxDepth) :
       \/ fs = Mount(ROOT_T, tree)
       \/ fs = Mount(ROOT_H, tree)
       \/ fs = NoFs
  /\ db = NoFs
  /\ pcT = "main" /\ IdleT /\ csv_file = <<>>
  /\ pcH = "main" /\ IdleH

\* the old content of the report file, when there is one
OLD_REPORT == <<"o", "l", "d", COMMA, "o", "l", "d", CR, LF,
                "x", COMMA, QUOTE, "y", QUOTE, CR, LF,
                "z", CR, LF, "w", CR, LF>>

CsvTableNames ==
  {<<"t">>, <<"a", COMMA, "b">>, <<QUOTE, "q">>, <<"x", LF, "y">>, <<CR>>}

CsvRecords ==
  {[database_name |-> d, table_name |-> t, column_count |-> Len(c),
    column_names |-> c, row_count |-> IF c = <<>> THEN 0 ELSE 10] :
     d \in {<<"d">>, <<"d", COMMA, SPACE, "e">>},
     t \in CsvTableNames,
     c \in {<<>>, <<Text_id, <<"a", COMMA, "b">>>>}}

RECURSIVE SeqsUpTo(_, _)
SeqsUpTo(S, n) ==
  IF n = 0 THEN {<<>>}
  ELSE LET shorter == SeqsUpTo(S, n - 1)
       IN shorter \cup {Append(q, e) : q \in shorter, e \in S}

\* write_csv_report is called on some records, the file there or not
InitCsv ==
  /\ fs = NoFs /\ db = NoFs
  /\ pcT = "write"
  /\ db_filesT = <<>> /\ iT = 0
  /\ all_tables_info \in SeqsUpTo(CsvRecords, MaxRecords)
  /\ database_name = None /\ tables_info = <<>> /\ connT = <<>>
  /\ tablesT = <<>> /\ kT = 0 /\ table_info = None /\ openT = {}
  /\ stdoutT = <<>> /\ csv_rows = <<>>
  /\ csv_file \in {<<>>, OLD_REPORT}
  /\ pcH = "idle" /\ IdleH

NextCsv ==
  \/ T_WriteCsv
  \/ ReadBack

Next ==
  \/ T_Discover
  \/ T_NextFile
  \/ T_Connect
  \/ T_ListTables
  \/ T_NextTable
  \/ T_Pragma
  \/ T_Count
  \/ T_Close
  \/ T_Except
  \/ T_Return
  \/ T_Finalize
  \/ T_LoopEnd
  \/ T_WriteCsv

NextHist ==
  \/ H_Discover
  \/ H_NextFile
  \/ H_Connect
  \/ H_ListTables
  \/ H_NextTable
  \/ H_Pragma
  \/ H_Close
  \/ H_Except
  \/ H_Return
  \/ H_Finalize
  \/ H_PrintDistribution
  \/ H_Plot

NextBoth ==
  \/ Next
  \/ NextHist

NextWalk ==
  \/ T_Discover
  \/ H_Discover

\* one run of analyze_database_tables.py
Spec == Init /\ [][Next]_vars

\* one run of analyze_database_table_column.py
SpecHist == InitHist /\ [][NextHist]_vars

\* a run of each script over copies of the same database file
SpecBoth == InitBoth /\ [][NextBoth]_vars

\* get_database_files of both scripts on a directory tree
SpecWalk == InitWalk /\ [][NextWalk]_vars

\* write_csv_report on its own, and the report read back
SpecCsv == InitCsv /\ [][NextCsv]_vars

(***************************************************************************)
(* What the claims speak of, said without the operators of the model.      *)
(***************************************************************************)
NoDuplicates(xs) == \A a, b \in 1..Len(xs) : xs[a] = xs[b] => a = b

RECURSIVE SumSeq(_)
SumSeq(xs) == IF xs = <<>> THEN 0 ELSE Head(xs) + SumSeq(Tail(xs))

HasSuffix(name, suffix) ==
  \E j \in 0..Len(name) : SubSeq(name, j + 1, Len(name)) = suffix

\* the logical name of a database file: its file name less the extension
StemOf(path) ==
  CHOOSE stem \in {SubSeq(path.file, 1, j) : j \in 0..Len(path.file)} :
    path.file \in {stem \o DOT_DB, stem \o DOT_SQLITE}

OpensAndLists(d) ==
  Q("connect", 0) \notin d.faults /\ Q("list", 0) \notin d.faults

\* how many tables, from the first of the catalog on, have all the queries
\* of the given kinds succeed
GoodPrefix(d, kinds) ==
  IF OpensAndLists(d)
  THEN Cardinality({m \in 1..Len(d.catalog) :
                      \A k \in 1..m, kind \in kinds : Q(kind, k) \notin d.faults})
  ELSE 0

\* tables before the first failure of get_table_info, of get_column_stats
GoodT(d) == GoodPrefix(d, {"pragma", "count"})
GoodH(d) == GoodPrefix(d, {"pragma"})

\* the inspection of the file raises
FailsT(d) == ~OpensAndLists(d) \/ GoodT(d) < Len(d.catalog)
FailsH(d) == ~OpensAndLists(d) \/ GoodH(d) < Len(d.catalog)

\* a row-count query raises in get_table_info's run
RowCountRaises(d) == \E k \in 1..GoodH(d) : Q("count", k) \in d.faults

\* the record of one table of one file
RecordOf(path, t) ==
  [database_name |-> StemOf(path), table_name |-> t.name,
   column_count |-> Len(t.columns),
   column_names |-> [j \in 1..Len(t.columns) |-> t.columns[j][2]],
   row_count |-> t.rows]

\* the records of the first n tables of a file, in catalog order
RecordsOf(path, n) == [k \in 1..n |-> RecordOf(path, TablesOf(db[path])[k])]

ReturnedT == pcT \in {"write", "done"}
ReturnedH == pcH \in {"plot", "done", "raised"}

\* the one file of SpecBoth, as each script sees it
FileT == FilePool(ROOT_T)[1]
FileH == FilePool(ROOT_H)[1]

(***************************************************************************)
(* C1.                                                                     *)
(***************************************************************************)
\* C1 as stated: a file whose inspection fails at any step contributes no
\* record at all, to get_table_info's list and to get_column_stats' mapping.
C1_FailedFileContributesNothing ==
  /\ (ReturnedT /\ FailsT(db[FileT])) => all_tables_info = <<>>
  /\ (ReturnedH /\ FailsH(db[FileH])) =>
       table_stats = <<>> /\ column_dist = <<>>

\* C1 as amended: a file whose inspection fails contributes exactly the
\* tables that precede, in catalog order, the table the failing query is
\* about (none when opening or listing fails); the failing table and the
\* tables after it are absent.
C1_FailedFileContributesPrefix ==
  /\ (ReturnedT /\ FailsT(db[FileT])) =>
       all_tables_info = RecordsOf(FileT, GoodT(db[FileT]))
  /\ (ReturnedH /\ FailsH(db[FileH])) =>
       /\ dict_keys(table_stats) =
            [k \in 1..GoodH(db[FileH]) |-> TablesOf(db[FileH])[k].name]
       /\ SumSeq([j \in 1..Len(column_dist) |-> column_dist[j].value]) =
            GoodH(db[FileH])

C1_Witness ==
  /\ ReturnedT /\ FailsT(db[FileT]) /\ all_tables_info # <<>>
  /\ ReturnedH /\ FailsH(db[FileH]) /\ table_stats # <<>>

(***************************************************************************)
(* C2.                                                                     *)
(***************************************************************************)
PrintedT(kind) ==
  LET ls == SelectSeq(stdoutT, LAMBDA l : l.kind = kind)
  IN [j \in 1..Len(ls) |-> ls[j].arg]

\* where the records of file i start in all_tables_info
RECURSIVE OffsetT(_)
OffsetT(i) ==
  IF i = 1 THEN 0 ELSE OffsetT(i - 1) + GoodT(db[db_filesT[i - 1]])

\* the steps of the CSV script up to the writing of the report
StepT ==
  \/ T_Discover \/ T_NextFile \/ T_Connect \/ T_ListTables \/ T_NextTable
  \/ T_Pragma \/ T_Count \/ T_Close \/ T_Except \/ T_Return \/ T_LoopEnd

\* C2: a failing file never aborts the run.  Until the last file has been
\* taken the run has a next step; at every turn of the main loop the files
\* taken so far are exactly the first iT discovered, and the diagnostics so
\* far name each failing one of them once, in order; at the end every file
\* was taken and every file that did not fail has all its records in the
\* aggregate.
C2_BadFileNeverAbortsRun ==
  /\ ~ReturnedT => ENABLED StepT
  /\ pcT \in {"loop", "write", "done"} =>
       /\ PrintedT("processing") = SubSeq(db_filesT, 1, iT)
       /\ PrintedT("error") =
            SelectSeq(SubSeq(db_filesT, 1, iT), LAMBDA f : FailsT(db[f]))
  /\ ReturnedT =>
       /\ iT = Len(db_filesT)
       /\ \A i \in 1..Len(db_filesT) :
            ~FailsT(db[db_filesT[i]]) =>
              SubSeq(all_tables_info, OffsetT(i) + 1,
                     OffsetT(i) + Len(db[db_filesT[i]].catalog))
                = RecordsOf(db_filesT[i], Len(db[db_filesT[i]].catalog))

C2_Witness ==
  /\ pcT = "done"
  /\ Len(db_filesT) >= 2
  /\ FailsT(db[db_filesT[1]])
  /\ ~FailsT(db[db_filesT[2]])
  /\ db[db_filesT[2]].catalog # <<>>
  /\ PrintedT("error") = <<db_filesT[1]>>

(***************************************************************************)
(* C4.                                                                     *)
(***************************************************************************)
\* C4: at every turn of the main loop, and at the end, all_tables_info is the
\* concatenation, in discovery order, of the records each file taken so far
\* returned, each file's in catalog order; nothing is dropped as a duplicate.
C4_FlatAggregationConcatenates ==
  pcT \in {"loop", "write", "done"} =>
    all_tables_info =
      Flatten([i \in 1..iT |->
                 RecordsOf(db_filesT[i], GoodT(db[db_filesT[i]]))])

\* two files with the same logical name and the same two tables: four
\* records, the first file's two, then the second file's two
C4_Witness ==
  /\ pcT = "done"
  /\ Len(all_tables_info) = 4
  /\ all_tables_info[1] = all_tables_info[3]
  /\ all_tables_info[2] = all_tables_info[4]
  /\ all_tables_info[1] # all_tables_info[2]

(***************************************************************************)
(* C7.                                                                     *)
(***************************************************************************)
\* C7: when the inspection of a file begins, no connection opened for an
\* earlier file is still open.
C7_NoConnectionOpenWhenNextFileBegins ==
  pcT = "connect" => openT = {}

(***************************************************************************)
(* C3.                                                                     *)
(***************************************************************************)
\* the tables get_column_stats returned, over all files: <<file, table>>
ObservedH ==
  UNION {{<<i, k>> : k \in 1..GoodH(db[db_filesH[i]])} :
           i \in 1..Len(db_filesH)}

ColumnsObserved(o) == Len(TablesOf(db[db_filesH[o[1]]])[o[2]].columns)

\* C3: the histogram analyze_columns returns has one entry per column count
\* observed on some returned table and no other, each counting exactly the
\* returned tables with that many columns, whatever the order of the files
\* and of the tables in them; so its values sum to the number of tables.
C3_HistogramCountsTables ==
  ReturnedH =>
    /\ NoDuplicates(dict_keys(column_dist))
    /\ Range(dict_keys(column_dist)) = {ColumnsObserved(o) : o \in ObservedH}
    /\ \A j \in 1..Len(column_dist) :
         /\ column_dist[j].value > 0
         /\ column_dist[j].value =
              Cardinality({o \in ObservedH :
                             ColumnsObserved(o) = column_dist[j].key})
    /\ SumSeq([j \in 1..Len(column_dist) |-> column_dist[j].value]) =
         Cardinality(ObservedH)

\* two files, a column count seen in both, and two distinct counts
C3_Witness ==
  /\ ReturnedH
  /\ Len(column_dist) >= 2
  /\ \E j \in 1..Len(column_dist) : column_dist[j].value >= 2
  /\ \E o \in ObservedH : o[1] = 2

(***************************************************************************)
(* C8.                                                                     *)
(***************************************************************************)
\* C8: the histogram script's run never raises.
C8_HistogramRunNeverRaises ==
  pcH # "raised"

(***************************************************************************)
(* C9.                                                                     *)
(***************************************************************************)
KeysH == Range(dict_keys(column_dist))

LeastKey == CHOOSE k \in KeysH : \A m \in KeysH : k <= m
GreatestKey == CHOOSE k \in KeysH : \A m \in KeysH : k >= m

\* the ticks of a linear axis of step 1 from 0, within the range (in halves)
TicksOf(range2) ==
  {n \in (range2[1] \div 2 - 1)..(range2[2] \div 2 + 1) :
     range2[1] <= 2 * n /\ 2 * n <= range2[2]}

\* C9: for a non-empty histogram the chart has one bar per observed column
\* count, in ascending order, its height and its label the number of tables
\* with that count, and a linear axis of step 1 over
\* [least count - 0.5, greatest count + 0.5].
C9_ChartShowsHistogram ==
  pcH = "done" =>
    /\ \A j \in 1..(Len(fig.x) - 1) : fig.x[j] < fig.x[j + 1]
    /\ Range(fig.x) = KeysH
    /\ Len(fig.y) = Len(fig.x)
    /\ \A j \in 1..Len(fig.x) :
         \E m \in 1..Len(column_dist) :
           column_dist[m].key = fig.x[j] /\ column_dist[m].value = fig.y[j]
    /\ fig.text = fig.y
    /\ fig.dtick = 1 /\ fig.tickmode = "linear"
    /\ fig.range2 = <<2 * LeastKey - 1, 2 * GreatestKey + 1>>
    /\ TicksOf(fig.range2) = LeastKey..GreatestKey
    /\ html_file

\* counts 3 and 1 met in that order: bars at 1 and 3, ticks 1, 2, 3
C9_Witness ==
  /\ pcH = "done"
  /\ dict_keys(column_dist) = <<3, 1>>
  /\ fig.x = <<1, 3>>
  /\ TicksOf(fig.range2) = {1, 2, 3}

(***************************************************************************)
(* C10.                                                                    *)
(***************************************************************************)
SchemaT ==
  [j \in 1..Len(all_tables_info) |->
     <<all_tables_info[j].table_name, all_tables_info[j].column_count,
       all_tables_info[j].column_names>>]

SchemaH ==
  [j \in 1..Len(table_stats) |->
     <<table_stats[j].key, table_stats[j].value.count,
       table_stats[j].value.columns>>]

\* the histogram of the CSV script's records is the histogram script's
SameHistogram ==
  /\ Range(dict_keys(column_dist)) =
       {all_tables_info[j].column_count : j \in 1..Len(all_tables_info)}
  /\ \A m \in 1..Len(column_dist) :
       column_dist[m].value =
         Cardinality({j \in 1..Len(all_tables_info) :
                        all_tables_info[j].column_count = column_dist[m].key})

CountIsNumberOfNames ==
  /\ \A j \in 1..Len(SchemaT) : SchemaT[j][2] = Len(SchemaT[j][3])
  /\ \A j \in 1..Len(SchemaH) : SchemaH[j][2] = Len(SchemaH[j][3])

\* C10 as stated: on the same file, whatever its queries do, both inspectors
\* report the same tables with the same column counts and names, so the two
\* histograms agree; every count is the number of names.
C10_InspectorsAgree ==
  (ReturnedT /\ ReturnedH) =>
    /\ Range(SchemaT) = Range(SchemaH)
    /\ SameHistogram
    /\ CountIsNumberOfNames

\* C10 as amended: on the same file the tables get_table_info reports are
\* the first of those get_column_stats reports, with the same column counts
\* and names; the two reports, and the two histograms, are the same exactly
\* when no row-count query (which get_table_info alone issues) raises; every
\* count is the number of names.
C10_InspectorsAgreeUnlessRowCountRaises ==
  (ReturnedT /\ ReturnedH) =>
    /\ Len(SchemaT) <= Len(SchemaH)
    /\ SchemaT = SubSeq(SchemaH, 1, Len(SchemaT))
    /\ RowCountRaises(db[FileT]) <=> Len(SchemaT) < Len(SchemaH)
    /\ ~RowCountRaises(db[FileT]) => SameHistogram
    /\ CountIsNumberOfNames

\* a file whose second table's metadata query raises: both report the first
C10_Witness ==
  /\ ReturnedT /\ ReturnedH
  /\ ~RowCountRaises(db[FileT])
  /\ db[FileT].faults # {}
  /\ SchemaT # <<>>
  /\ SchemaT = SchemaH

(***************************************************************************)
(* C5.                                                                     *)
(***************************************************************************)
\* the paths of the files under root R whose name ends in .sqlite or .db
DatabaseFilesUnder(R) ==
  UNION {{path_join(p, fs[p].files[j]) :
            j \in {j \in 1..Len(fs[p].files) :
                     \/ HasSuffix(fs[p].files[j], DOT_SQLITE)
                     \/ HasSuffix(fs[p].files[j], DOT_DB)}} :
           p \in {p \in DOMAIN fs : p[1] = R}}

ExactlyTheDatabaseFiles(found, R) ==
  /\ NoDuplicates(found)
  /\ Range(found) = DatabaseFilesUnder(R)
  /\ Len(found) = Cardinality(DatabaseFilesUnder(R))
  /\ (<<R>> \notin DOMAIN fs) => found = <<>>

\* C5: get_database_files returns each file under the root, at any depth,
\* whose name ends in .sqlite or .db, once, and nothing else; a root that
\* is missing or holds no such file gives the empty list.
C5_DiscovererFindsExactlyDatabaseFiles ==
  /\ pcT = "loop" => ExactlyTheDatabaseFiles(db_filesT, ROOT_T)
  /\ pcH = "loop" => ExactlyTheDatabaseFiles(db_filesH, ROOT_H)

\* files found at the root and below it, next to a file and a directory
\* that only look like databases
C5_Witness ==
  /\ pcT = "loop"
  /\ Len(db_filesT) >= 3
  /\ \E j \in 1..Len(db_filesT) : Len(db_filesT[j].root) = 1
  /\ \E j \in 1..Len(db_filesT) : Len(db_filesT[j].root) = 2
  /\ <<ROOT_T, "old.db">> \in DOMAIN fs
  /\ \E p \in DOMAIN fs : Name_a_db_bak \in Range(fs[p].files)

(***************************************************************************)
(* C6.                                                                     *)
(***************************************************************************)
DigitValue(c) == CHOOSE d \in 0..9 : Digit(d) = c

IsDecimal(text) ==
  /\ text # <<>>
  /\ \A j \in 1..Len(text) : \E d \in 0..9 : Digit(d) = text[j]
  /\ Len(text) > 1 => text[1] # "0"

RECURSIVE DecimalValue(_)
DecimalValue(text) ==
  IF text = <<>> THEN 0
  ELSE 10 * DecimalValue(SubSeq(text, 1, Len(text) - 1))
       + DigitValue(text[Len(text)])

\* the names, each but the last followed by a comma and a space
ListedNames(names) ==
  Flatten([j \in 1..Len(names) |->
             IF j < Len(names) THEN names[j] \o <<",", " ">> ELSE names[j]])

RowMatches(row, info) ==
  /\ Len(row) = 5
  /\ row[1] = info.database_name
  /\ row[2] = info.table_name
  /\ IsDecimal(row[3]) /\ DecimalValue(row[3]) = info.row_count
  /\ IsDecimal(row[4]) /\ DecimalValue(row[4]) = info.column_count
  /\ row[5] = ListedNames(info.column_names)

HeaderLine ==
  <<"D", "a", "t", "a", "b", "a", "s", "e", ",", "T", "a", "b", "l", "e",
    ",", "R", "o", "w", "s", ",", "C", "o", "l", "u", "m", "n", "s", ",",
    "C", "o", "l", "u", "m", "n", " ", "N", "a", "m", "e", "s", "\r", "\n">>

\* C6: the file write_csv_report leaves starts with the header line,
\* whatever it held before, and read back it is the header row followed by
\* one row per record, in the records' order, each row the record's
\* database name, table name, row count, column count, and column names
\* joined with ', '.
C6_CsvReportRoundTrips ==
  /\ pcT \in {"done", "read"} =>
       /\ Len(csv_file) >= Len(HeaderLine)
       /\ SubSeq(csv_file, 1, Len(HeaderLine)) = HeaderLine
  /\ pcT = "read" =>
       /\ Len(csv_rows) = 1 + Len(all_tables_info)
       /\ csv_rows[1] = <<Text_Database, Text_Table, Text_Rows, Text_Columns,
                          Text_ColumnNames>>
       /\ \A j \in 1..Len(all_tables_info) :
            RowMatches(csv_rows[j + 1], all_tables_info[j])

\* two records read back, a comma in the first table name, a line feed in
\* the second, a comma in a column name
C6_Witness ==
  /\ pcT = "read"
  /\ Len(all_tables_info) = 2
  /\ "," \in Range(all_tables_info[1].table_name)
  /\ "\n" \in Range(all_tables_info[2].table_name)
  /\ all_tables_info[2].column_count = 2
  /\ Len(csv_rows) = 3

====
